---- MODULE Spec2Model ----
(***************************************************************************)
(* Model of the supply ledger of helper/staking: SupplyTracker and         *)
(* SystemSupplyTracker (supply_tracker.go, kept here as unnamed/part_000). *)
(*                                                                         *)
(* Amounts are arbitrary-precision integers (math/big) in the source, so   *)
(* no width applies.  The model counts amounts in units of half a token    *)
(* (0.5 * 10^18 wei): the block reward of one token is 2 units and the     *)
(* supply cap is scaled down to a handful of units so that the states at   *)
(* and around the cap are reachable with a short audit log.                *)
(*                                                                         *)
(* A *big.Int is a pointer.  A pointer argument is modelled as <<>> (nil)  *)
(* or <<v>> (a pointer to the value v); a pointer stored in the audit log  *)
(* is an index into mem, the big.Int cells that the log entries refer to.  *)
(* The Timestamp field of an entry (wall clock, read by no operation) is   *)
(* not modelled.                                                           *)
(***************************************************************************)
EXTENDS Integers, Sequences, FiniteSets, TLC

\* ---------------------------------------------------------------- constants
MaxSupplyAmount == 5
BlockRewardAmount == 2

\* block numbers from here on are negative as an int64
Int64Limit == 8

ErrSupplyCapExceeded == "supply cap exceeded"
ErrUnauthorizedMint == "unauthorized mint operation"
ErrInvalidAmount == "invalid amount"
ErrInsufficientSupply == "insufficient supply to burn"
NoErr == "nil"

\* ------------------------------------------------------------------- bounds
MaxLog == 2
MaxAmount == 4

\* blocks produced in a run
MaxHeight == 3

\* the largest total of transaction fees of a block
MaxFees == 5

\* SystemSupplyTracker instances a process creates in a run
MaxInstances == 2

ConsensusEngineAddress == "0x0000000000000000000000000000000000000000"
ConsensusEngineIdentifier == "consensus_engine"
Callers == {ConsensusEngineIdentifier, ConsensusEngineAddress, "unauthorized_caller"}
\* a block number is only recorded in the entry; no operation reads it
BlockNumbers == {1}
Amounts == {<<>>} \cup {<<v>> : v \in (-1)..MaxAmount}
InitialSupplies == (-1)..(MaxSupplyAmount + 1)
Addresses == {"owner"}
\* every account of the balance ledger
Accounts == Addresses \cup {"producer"}

VARIABLES
    initialSupply,  \* SupplyTracker.initialSupply
    auditLog,       \* SupplyTracker.auditLog; Amount is an index into mem
    mem,            \* the big.Int cells referenced by audit entries
    balance,        \* the external balance ledger behind txn.AddBalance
    returned,       \* the slice last handed out by GetAuditLog
    call,           \* the last call: operation, arguments and its result
    mintedOk,       \* sum of the amounts of the Mint calls that returned nil
    burnedOk,       \* sum of the amounts of the Burn calls that returned nil
    authChecked     \* whether the last call evaluated isConsensusEngine

\* the block pipeline that mints through SystemSupplyTracker.MintBlockReward
VARIABLES
    pending         \* the mintable amount the pipeline computed, <<>> if none

\* the package-level genesis cache of enhanced_staking.go
VARIABLES
    GenesisAllocCache,  \* <<>> (nil map) or <<alloc>>, alloc: address -> account
    genesisTotal,       \* the cached total: <<>> (nil) or <<v>>
    totalRet            \* the *big.Int getGenesisTotal last returned: <<>> if
                        \* none yet, else <<[v, shared]>>, shared iff it is the
                        \* cached big.Int itself

\* the chain the per-block MintBlockReward runs on
VARIABLES
    height          \* the number of the last block processed

\* the last DistributeTxFeesToValidator call: its arguments and, in order,
\* the AddBalance calls it made
VARIABLES
    fees

\* goroutines calling into one tracker at the same time
VARIABLES
    mutex,          \* the tracker's sync.RWMutex: [writer, readers], writer the
                    \* goroutine holding Lock ("" if none), readers those
                    \* holding RLock
    proc            \* per goroutine: where it is in its call, the call's
                    \* arguments and locals

\* the package variable globalSupplyTracker: <<>> (nil) or <<n>>, the n-th
\* SystemSupplyTracker the process created; while it is not nil the tracker
\* variables above are the state of that instance
VARIABLES
    globalSupplyTracker

trackerVars ==
    <<initialSupply, auditLog, mem, balance, returned, call, mintedOk, burnedOk, authChecked>>

pipelineVars == <<pending>>

genesisVars == <<GenesisAllocCache, genesisTotal, totalRet>>

chainVars == <<height>>

feeVars == <<fees>>

concVars == <<mutex, proc>>

globalVars == <<globalSupplyTracker>>

vars == <<trackerVars, pipelineVars, genesisVars, chainVars, feeVars, concVars, globalVars>>

\* what the operations of the tracker alone leave as it is
outsideTracker == <<pipelineVars, genesisVars, chainVars, feeVars, concVars, globalVars>>

\* what the block pipeline leaves as it is
outsidePipeline == <<genesisVars, chainVars, feeVars, concVars, globalVars>>

\* what the operations on the genesis cache leave as it is
outsideGenesis == <<pipelineVars, chainVars, feeVars, concVars, globalVars>>

\* what the per-block reward leaves as it is
outsideChain == <<pipelineVars, feeVars, concVars, globalVars>>

\* what the fee distribution leaves as it is
outsideFees == <<pipelineVars, genesisVars, chainVars, concVars, globalVars>>

\* what a step of a goroutine inside the tracker leaves as it is
outsideConc == <<pipelineVars, genesisVars, chainVars, feeVars, globalVars>>

\* what the operations on the global tracker leave as it is
outsideGlobal == <<pipelineVars, genesisVars, chainVars, feeVars, concVars>>

\* ------------------------------------------------------------ pure helpers
\* the check, were any non-empty caller string accepted
isConsensusEngine_AnyNonEmpty(caller) == caller # ""

isConsensusEngine(caller) ==
    caller = ConsensusEngineAddress \/ caller = ConsensusEngineIdentifier

getMaxSupply == MaxSupplyAmount

\* the loop shared by GetTotalSupply and getCurrentSupply
RECURSIVE SumChanges(_, _, _)
SumChanges(total, log, m) ==
    IF log = <<>> THEN total
    ELSE LET change == Head(log) IN
         SumChanges(IF change.Type = "mint" THEN total + m[change.Amount]
                    ELSE IF change.Type = "burn" THEN total - m[change.Amount]
                    ELSE total,
                    Tail(log), m)

\* mutant: the loop skips the burn entries
RECURSIVE SumMints(_, _, _)
SumMints(total, log, m) ==
    IF log = <<>> THEN total
    ELSE LET change == Head(log) IN
         SumMints(IF change.Type = "mint" THEN total + m[change.Amount] ELSE total,
                  Tail(log), m)

GetTotalSupply_IgnoreBurn == SumMints(initialSupply, auditLog, mem)

GetTotalSupply == SumChanges(initialSupply, auditLog, mem)

getCurrentSupply == SumChanges(initialSupply, auditLog, mem)

\* make + copy: a new slice holding the same entry structs (same pointers)
GetAuditLog == [i \in 1..Len(auditLog) |-> auditLog[i]]

SupplyAuditLog(blockNumber, amountPtr, type, caller) ==
    [BlockNumber |-> blockNumber, Amount |-> amountPtr, Type |-> type, Caller |-> caller]

Call(op, amount, blockNumber, caller, err) ==
    [op |-> op, amount |-> amount, blockNumber |-> blockNumber, caller |-> caller, err |-> err]

\* ------------------------------------------------------------------- Init
NewSupplyTracker(supply) ==
    /\ initialSupply = supply
    /\ auditLog = <<>>

\* the goroutines
Procs == {"g1", "g2"}

\* a goroutine that is in no call
Idle ==
    [pc |-> "idle", op |-> "", amount |-> <<>>, caller |-> "", txn |-> "",
     err |-> NoErr, reward |-> 0, inCallback |-> FALSE]

Init ==
    /\ \E supply \in InitialSupplies : NewSupplyTracker(supply)
    /\ mem = <<>>
    /\ balance = [a \in Accounts |-> 0]
    /\ returned = <<>>
    /\ call = Call("NewSupplyTracker", <<>>, 0, "", NoErr)
    /\ mintedOk = 0
    /\ burnedOk = 0
    /\ authChecked = FALSE
    /\ pending = <<>>
    /\ GenesisAllocCache = <<>>
    /\ genesisTotal = <<>>
    /\ totalRet = <<>>
    /\ height = 0
    /\ fees = [totalFees |-> <<>>, ownerAddress |-> "", blockProducerAddress |-> "",
               credits |-> <<>>]
    /\ mutex = [writer |-> "", readers |-> {}]
    /\ proc = [p \in Procs |-> Idle]
    /\ globalSupplyTracker = <<>>

\* ------------------------------------------------------------------- Mint
\* mutant: the caller is validated before the amount
MintErr_AuthFirst(amount, caller) ==
    IF ~isConsensusEngine(caller) THEN ErrUnauthorizedMint
    ELSE IF amount = <<>> \/ amount[1] <= 0 THEN ErrInvalidAmount
    ELSE IF getCurrentSupply + amount[1] > getMaxSupply THEN ErrSupplyCapExceeded
    ELSE NoErr

\* mutant: the cap check rejects a mint that lands exactly on the cap
MintErr_OffByOne(amount, caller) ==
    IF amount = <<>> \/ amount[1] <= 0 THEN ErrInvalidAmount
    ELSE IF ~isConsensusEngine(caller) THEN ErrUnauthorizedMint
    ELSE IF getCurrentSupply + amount[1] >= getMaxSupply THEN ErrSupplyCapExceeded
    ELSE NoErr

\* the checks of Mint, in the order of the code
MintErr(amount, caller) ==
    IF amount = <<>> \/ amount[1] <= 0 THEN ErrInvalidAmount
    ELSE IF ~isConsensusEngine(caller) THEN ErrUnauthorizedMint
    ELSE IF getCurrentSupply + amount[1] > getMaxSupply THEN ErrSupplyCapExceeded
    ELSE NoErr

\* the entry Mint appends: Amount is the caller's pointer
MintEntry(amount, blockNumber, caller) ==
    SupplyAuditLog(blockNumber, Len(mem) + 1, "mint", caller)

\* mutant: the entry is appended before the cap check rejects the call
Mint_AppendBeforeCapCheck(amount, blockNumber, caller) ==
    /\ Len(auditLog) < MaxLog
    /\ LET err == MintErr(amount, caller) IN
       /\ IF err \in {NoErr, ErrSupplyCapExceeded}
          THEN /\ mem' = Append(mem, amount[1])
               /\ auditLog' = Append(auditLog, MintEntry(amount, blockNumber, caller))
               /\ mintedOk' = IF err = NoErr THEN mintedOk + amount[1] ELSE mintedOk
          ELSE UNCHANGED <<mem, auditLog, mintedOk>>
       /\ call' = Call("Mint", amount, blockNumber, caller, err)
       /\ authChecked' = (err # ErrInvalidAmount)
    /\ UNCHANGED <<initialSupply, balance, returned, burnedOk>>

Mint(amount, blockNumber, caller) ==
    /\ Len(auditLog) < MaxLog
    /\ LET err == MintErr(amount, caller) IN
       /\ IF err = NoErr
          THEN /\ mem' = Append(mem, amount[1])
               /\ auditLog' = Append(auditLog, MintEntry(amount, blockNumber, caller))
               /\ mintedOk' = mintedOk + amount[1]
          ELSE UNCHANGED <<mem, auditLog, mintedOk>>
       /\ call' = Call("Mint", amount, blockNumber, caller, err)
       /\ authChecked' = (err # ErrInvalidAmount)
    /\ UNCHANGED <<initialSupply, balance, returned, burnedOk>>

\* ------------------------------------------------------------------- Burn
\* mutant: the supply is checked before the caller
BurnErr_SupplyFirst(amount, caller) ==
    IF amount = <<>> \/ amount[1] <= 0 THEN ErrInvalidAmount
    ELSE IF getCurrentSupply < amount[1] THEN ErrInsufficientSupply
    ELSE IF ~isConsensusEngine(caller) THEN ErrUnauthorizedMint
    ELSE NoErr

\* mutant: burning the whole supply is rejected
BurnErr_OffByOne(amount, caller) ==
    IF amount = <<>> \/ amount[1] <= 0 THEN ErrInvalidAmount
    ELSE IF ~isConsensusEngine(caller) THEN ErrUnauthorizedMint
    ELSE IF getCurrentSupply <= amount[1] THEN ErrInsufficientSupply
    ELSE NoErr

BurnErr(amount, caller) ==
    IF amount = <<>> \/ amount[1] <= 0 THEN ErrInvalidAmount
    ELSE IF ~isConsensusEngine(caller) THEN ErrUnauthorizedMint
    ELSE IF getCurrentSupply < amount[1] THEN ErrInsufficientSupply
    ELSE NoErr

\* mutant: the burn is recorded with the caller left out
BurnEntry_NoCaller(amount, blockNumber, caller) ==
    SupplyAuditLog(blockNumber, Len(mem) + 1, "burn", "")

BurnEntry(amount, blockNumber, caller) ==
    SupplyAuditLog(blockNumber, Len(mem) + 1, "burn", caller)

Burn(amount, blockNumber, caller) ==
    /\ Len(auditLog) < MaxLog
    /\ LET err == BurnErr(amount, caller) IN
       /\ IF err = NoErr
          THEN /\ mem' = Append(mem, amount[1])
               /\ auditLog' = Append(auditLog, BurnEntry(amount, blockNumber, caller))
               /\ burnedOk' = burnedOk + amount[1]
          ELSE UNCHANGED <<mem, auditLog, burnedOk>>
       /\ call' = Call("Burn", amount, blockNumber, caller, err)
       /\ authChecked' = (err # ErrInvalidAmount)
    /\ UNCHANGED <<initialSupply, balance, returned, mintedOk>>

\* ------------------------------------------------------ MintRewardWithCap
\* mutant: the full reward is minted whenever the cap is not yet reached
CappedReward_NoClamp(currentSupply, maxSupply) ==
    IF currentSupply >= maxSupply THEN 0 ELSE BlockRewardAmount

\* the amount MintRewardWithCap mints at currentSupply; 0 stands for the two
\* early returns that mint nothing
CappedReward(currentSupply, maxSupply) ==
    IF currentSupply >= maxSupply THEN 0
    ELSE IF currentSupply + BlockRewardAmount > maxSupply
         THEN (IF maxSupply - currentSupply <= 0 THEN 0 ELSE maxSupply - currentSupply)
         ELSE BlockRewardAmount

MintRewardWithCap(blockNumber, ownerAddress) ==
    /\ Len(auditLog) < MaxLog
    /\ LET blockReward == CappedReward(getCurrentSupply, getMaxSupply) IN
       IF blockReward = 0
       THEN UNCHANGED <<mem, auditLog, balance>>
       ELSE /\ mem' = Append(mem, blockReward)
            /\ auditLog' = Append(auditLog,
                   SupplyAuditLog(blockNumber, Len(mem) + 1, "mint", "consensus_engine"))
            /\ balance' = [balance EXCEPT ![ownerAddress] = @ + blockReward]
    /\ call' = Call("MintRewardWithCap", <<>>, blockNumber, ownerAddress, NoErr)
    /\ authChecked' = FALSE
    /\ UNCHANGED <<initialSupply, returned, mintedOk, burnedOk>>

\* ------------------------------------- SystemSupplyTracker.MintBlockReward
SystemMintBlockReward(amount, blockNumber) ==
    Mint(amount, blockNumber, "consensus_engine")

GetCurrentSupply == GetTotalSupply

\* ------------------------------------------------------------------ reads
ReadTotalSupply ==
    /\ call' = Call("GetTotalSupply", <<GetTotalSupply>>, 0, "", NoErr)
    /\ authChecked' = FALSE
    /\ UNCHANGED <<initialSupply, auditLog, mem, balance, returned, mintedOk, burnedOk>>

ReadAuditLog ==
    /\ returned' = GetAuditLog
    /\ call' = Call("GetAuditLog", <<>>, 0, "", NoErr)
    /\ authChecked' = FALSE
    /\ UNCHANGED <<initialSupply, auditLog, mem, balance, mintedOk, burnedOk>>

\* ------------------------------------------- the caller of GetAuditLog
\* What a caller can do with the slice GetAuditLog handed out: the slice
\* and its entry structs are the caller's own, the *big.Int an entry
\* points to is the cell the tracker's entry points to.
CallerValues == {0, MaxAmount}
CallerTypes == {"mint", "burn"}

\* log[i] = SupplyAuditLog{}
CallerReplaceEntry(i) ==
    /\ returned' = [returned EXCEPT ![i] = SupplyAuditLog(0, 0, "", "")]
    /\ call' = Call("CallerReplaceEntry", <<>>, 0, "", NoErr)
    /\ authChecked' = FALSE
    /\ UNCHANGED <<initialSupply, auditLog, mem, balance, mintedOk, burnedOk>>

\* log = log[:len(log)-1]
CallerRemoveEntry ==
    /\ returned # <<>>
    /\ returned' = SubSeq(returned, 1, Len(returned) - 1)
    /\ call' = Call("CallerRemoveEntry", <<>>, 0, "", NoErr)
    /\ authChecked' = FALSE
    /\ UNCHANGED <<initialSupply, auditLog, mem, balance, mintedOk, burnedOk>>

\* log[i].Type = type
CallerSetType(i, type) ==
    /\ returned' = [returned EXCEPT ![i].Type = type]
    /\ call' = Call("CallerSetType", <<>>, 0, "", NoErr)
    /\ authChecked' = FALSE
    /\ UNCHANGED <<initialSupply, auditLog, mem, balance, mintedOk, burnedOk>>

\* log[i].Amount.SetInt64(v)
CallerSetAmount(i, v) ==
    /\ returned[i].Amount # 0
    /\ mem' = [mem EXCEPT ![returned[i].Amount] = v]
    /\ call' = Call("CallerSetAmount", <<v>>, 0, "", NoErr)
    /\ authChecked' = FALSE
    /\ UNCHANGED <<initialSupply, auditLog, balance, returned, mintedOk, burnedOk>>

CallerNext ==
    \/ \E i \in 1..Len(returned) : CallerReplaceEntry(i)
    \/ CallerRemoveEntry
    \/ \E i \in 1..Len(returned), type \in CallerTypes : CallerSetType(i, type)
    \/ \E i \in 1..Len(returned), v \in CallerValues : CallerSetAmount(i, v)

\* ------------------------------------------------------------------- Next
\* ------------------------------------------------------ the block pipeline
\* The per-block caller of the ledger, as the design describes it: it asks
\* the issuance policy for the mintable amount at the ledger's current
\* supply and, if that is positive, mints it.
Min(a, b) == IF a <= b THEN a ELSE b

ComputeMintable(currentSupply, maxSupply, nominalReward) ==
    IF currentSupply >= maxSupply THEN 0
    ELSE Min(nominalReward, maxSupply - currentSupply)

PipelineCompute ==
    /\ pending = <<>>
    /\ UNCHANGED outsidePipeline
    /\ pending' = <<ComputeMintable(GetCurrentSupply, getMaxSupply, BlockRewardAmount)>>
    /\ call' = Call("ComputeMintable", pending', 0, "", NoErr)
    /\ authChecked' = FALSE
    /\ UNCHANGED <<initialSupply, auditLog, mem, balance, returned, mintedOk, burnedOk>>

PipelineMint(blockNumber) ==
    /\ pending # <<>>
    /\ pending' = <<>>
    /\ UNCHANGED outsidePipeline
    /\ IF pending[1] > 0
       THEN SystemMintBlockReward(pending, blockNumber)
       ELSE /\ call' = Call("NoMint", pending, blockNumber, "", NoErr)
            /\ authChecked' = FALSE
            /\ UNCHANGED <<initialSupply, auditLog, mem, balance, returned,
                           mintedOk, burnedOk>>

\* the pipeline is the only minter; burns and reads come in between its steps
NextPipeline ==
    \/ PipelineCompute
    \/ \E blockNumber \in BlockNumbers : PipelineMint(blockNumber)
    \/ \E amount \in Amounts, blockNumber \in BlockNumbers, caller \in Callers :
          Burn(amount, blockNumber, caller) /\ UNCHANGED outsideTracker
    \/ ReadTotalSupply /\ UNCHANGED outsideTracker
    \/ ReadAuditLog /\ UNCHANGED outsideTracker

SpecPipeline == Init /\ [][NextPipeline]_vars

\* ====================================================================
\* enhanced_staking.go: the genesis total and the per-block reward
\* ====================================================================
ZeroAddress == "0x0000000000000000000000000000000000000000"

GenesisAddresses == {ZeroAddress, "alice", "bob"}

\* a *big.Int balance of a genesis account: nil or a value
GenesisBalances == {<<>>, <<0>>, <<1>>, <<2>>, <<MaxSupplyAmount>>}

\* chain.GenesisAccount, of which only Balance is read
GenesisAccounts == [Balance : GenesisBalances]

\* map[types.Address]*chain.GenesisAccount: <<>> is the nil map, <<alloc>>
\* a map with the keys DOMAIN alloc
GenesisAllocs ==
    {<<>>} \cup
    {<<alloc>> : alloc \in UNION {[keys -> GenesisAccounts] : keys \in SUBSET GenesisAddresses}}

\* the allocations a chain is started with in the runs that go on to mint
StartupAllocs ==
    {<<>>} \cup {<<[addr \in {"alice"} |-> [Balance |-> b]]>> : b \in GenesisBalances}

\* the range loop of calculateGenesisTotal, with the zero address counted
RECURSIVE SumBalances_CountZeroAddress(_, _)
SumBalances_CountZeroAddress(alloc, addrs) ==
    IF addrs = {} THEN 0
    ELSE LET addr == CHOOSE a \in addrs : TRUE
             acc == alloc[addr]
             rest == SumBalances_CountZeroAddress(alloc, addrs \ {addr})
         IN  IF acc.Balance # <<>> THEN rest + acc.Balance[1] ELSE rest

\* the range loop of calculateGenesisTotal over the keys addrs
RECURSIVE SumBalances(_, _)
SumBalances(alloc, addrs) ==
    IF addrs = {} THEN 0
    ELSE LET addr == CHOOSE a \in addrs : TRUE
             acc == alloc[addr]
             rest == SumBalances(alloc, addrs \ {addr})
         IN  IF addr = ZeroAddress THEN rest
             ELSE IF acc.Balance # <<>> THEN rest + acc.Balance[1] ELSE rest

\* calculateGenesisTotal reads the package variable; cache is its value
calculateGenesisTotal(cache) ==
    IF cache = <<>> THEN 0
    ELSE SumBalances(cache[1], DOMAIN cache[1])

\* new(big.Int).Set(v), with the cached big.Int handed out instead
NewBigIntSet_Alias(v) == [v |-> v, shared |-> TRUE]

\* new(big.Int).Set(v): a big.Int of its own holding v
NewBigIntSet(v) == [v |-> v, shared |-> FALSE]

\* genesisTotal after the nil check of getGenesisTotal
CachedGenesisTotal ==
    IF genesisTotal = <<>> THEN <<calculateGenesisTotal(GenesisAllocCache)>>
    ELSE genesisTotal

\* the value getGenesisTotal returns when called in this state
GenesisTotalValue == NewBigIntSet(CachedGenesisTotal[1]).v

SetGenesisAllocCache(alloc) ==
    /\ GenesisAllocCache' = alloc
    /\ genesisTotal' = <<calculateGenesisTotal(GenesisAllocCache')>>
    \* the big.Int cached before is dropped: a pointer to it is no longer
    \* a pointer to the cache
    /\ totalRet' = IF totalRet = <<>> THEN <<>>
                   ELSE <<[totalRet[1] EXCEPT !.shared = FALSE]>>
    /\ call' = Call("SetGenesisAllocCache", <<>>, 0, "", NoErr)
    /\ authChecked' = FALSE
    /\ UNCHANGED <<initialSupply, auditLog, mem, balance, returned, mintedOk, burnedOk>>

getGenesisTotal ==
    /\ genesisTotal' = CachedGenesisTotal
    /\ totalRet' = <<NewBigIntSet(genesisTotal'[1])>>
    /\ call' = Call("getGenesisTotal", <<totalRet'[1].v>>, 0, "", NoErr)
    /\ authChecked' = FALSE
    /\ UNCHANGED <<GenesisAllocCache, initialSupply, auditLog, mem, balance, returned,
                   mintedOk, burnedOk>>

LogGenesisAllocSum == getGenesisTotal

\* the values a caller writes into a *big.Int it was handed
TotalWrites == {0, MaxSupplyAmount + 1}

\* total.SetInt64(v) by the caller that holds the returned total
CallerSetTotal(v) ==
    /\ totalRet # <<>>
    /\ totalRet' = <<[totalRet[1] EXCEPT !.v = v]>>
    /\ genesisTotal' = IF totalRet[1].shared THEN <<v>> ELSE genesisTotal
    /\ call' = Call("CallerSetTotal", <<v>>, 0, "", NoErr)
    /\ authChecked' = FALSE
    /\ UNCHANGED <<GenesisAllocCache, initialSupply, auditLog, mem, balance, returned,
                   mintedOk, burnedOk>>

\* int64(blockNumber) of a uint64: the width is scaled down with the
\* amounts, Int64Limit standing for 2^63
ToInt64(blockNumber) ==
    IF blockNumber < Int64Limit THEN blockNumber ELSE blockNumber - 2 * Int64Limit

\* the supply formula with the rewards of the blocks left out
getCurrentSupplyFromBlockNumber_GenesisOnly(blockNumber) == GenesisTotalValue

getCurrentSupplyFromBlockNumber(blockNumber) ==
    GenesisTotalValue + ToInt64(blockNumber) * BlockRewardAmount

\* the package-level MintBlockReward: what it hands to txn.AddBalance,
\* 0 when it returns without calling it
BlockRewardCredit(blockNumber) ==
    LET currentSupply == getCurrentSupplyFromBlockNumber(blockNumber)
        blockReward == BlockRewardAmount
        maxSupply == MaxSupplyAmount
        newSupply == currentSupply + blockReward
        remaining == maxSupply - currentSupply
    IN  IF newSupply > maxSupply
        THEN IF remaining <= 0 THEN 0 ELSE remaining
        ELSE blockReward

MintBlockReward(blockNumber, ownerAddress) ==
    LET credit == BlockRewardCredit(blockNumber)
    IN  /\ genesisTotal' = CachedGenesisTotal
        /\ balance' = IF credit = 0 THEN balance
                      ELSE [balance EXCEPT ![ownerAddress] = @ + credit]
        /\ call' = Call("MintBlockReward", <<credit>>, blockNumber, ownerAddress, NoErr)
        /\ authChecked' = FALSE
        /\ UNCHANGED <<GenesisAllocCache, totalRet, initialSupply, auditLog, mem,
                       returned, mintedOk, burnedOk>>

\* the chain produces its next block and mints that block's reward
ProcessBlock(ownerAddress) ==
    /\ height < MaxHeight
    /\ height' = height + 1
    /\ MintBlockReward(height', ownerAddress)

\* the genesis cache, its readers and a caller writing to what it was handed
NextGenesis ==
    \/ \E alloc \in GenesisAllocs :
          SetGenesisAllocCache(alloc) /\ UNCHANGED outsideGenesis
    \/ LogGenesisAllocSum /\ UNCHANGED outsideGenesis
    \/ \E v \in TotalWrites : CallerSetTotal(v) /\ UNCHANGED outsideGenesis

SpecGenesis == Init /\ [][NextGenesis]_vars

\* every entry point that mints a block reward, on a chain started with some
\* genesis allocation
NextReward ==
    \/ \E alloc \in StartupAllocs :
          /\ height = 0
          /\ SetGenesisAllocCache(alloc)
          /\ UNCHANGED outsideGenesis
    \/ \E ownerAddress \in Addresses :
          ProcessBlock(ownerAddress) /\ UNCHANGED outsideChain
    \/ \E blockNumber \in BlockNumbers, ownerAddress \in Addresses :
          MintRewardWithCap(blockNumber, ownerAddress) /\ UNCHANGED outsideTracker
    \/ \E amount \in {<<1>>, <<BlockRewardAmount>>}, blockNumber \in BlockNumbers :
          SystemMintBlockReward(amount, blockNumber) /\ UNCHANGED outsideTracker

SpecReward == Init /\ [][NextReward]_vars

\* the chain as the node runs it: the genesis allocation is set at startup,
\* then MintBlockReward is called once for each block, 1, 2, 3, ...
NextChain ==
    \/ \E alloc \in GenesisAllocs :
          /\ height = 0
          /\ SetGenesisAllocCache(alloc)
          /\ UNCHANGED outsideGenesis
    \/ \E ownerAddress \in Addresses :
          ProcessBlock(ownerAddress) /\ UNCHANGED outsideChain

SpecChain == Init /\ [][NextChain]_vars

\* ------------------------------------------------ DistributeTxFeesToValidator
\* totalFees: nil or a value
Fees == {<<>>} \cup {<<v>> : v \in 0..MaxFees}

\* the ledger is followed until it holds this much
LedgerLimit == 2 * MaxFees

\* txn.AddBalance(addr, amount)
AddBalance(ledger, addr, amount) == [ledger EXCEPT ![addr] = @ + amount]

\* new(big.Int).Div(totalFees, big.NewInt(2)): Euclidean division, which for
\* the divisor 2 is the floor
OwnerFee(totalFees) == totalFees \div 2

\* the producer's share, were it computed as the owner's is
ValidatorFee_HalfToo(totalFees) == totalFees \div 2

\* new(big.Int).Sub(totalFees, ownerFee)
ValidatorFee(totalFees) == totalFees - OwnerFee(totalFees)

DistributeTxFeesToValidator(totalFees, ownerAddress, blockProducerAddress) ==
    /\ IF totalFees = <<>> \/ totalFees[1] = 0
       THEN /\ balance' = balance
            /\ fees' = [totalFees |-> totalFees, ownerAddress |-> ownerAddress,
                        blockProducerAddress |-> blockProducerAddress,
                        credits |-> <<>>]
       ELSE LET ownerFee == OwnerFee(totalFees[1])
                validatorFee == ValidatorFee(totalFees[1])
            IN  /\ balance' = AddBalance(AddBalance(balance, ownerAddress, ownerFee),
                                         blockProducerAddress, validatorFee)
                /\ fees' = [totalFees |-> totalFees, ownerAddress |-> ownerAddress,
                            blockProducerAddress |-> blockProducerAddress,
                            credits |-> <<[to |-> ownerAddress, amount |-> ownerFee],
                                          [to |-> blockProducerAddress,
                                           amount |-> validatorFee]>>]
    /\ call' = Call("DistributeTxFeesToValidator", totalFees, 0, ownerAddress, NoErr)
    /\ authChecked' = FALSE
    /\ UNCHANGED <<initialSupply, auditLog, mem, returned, mintedOk, burnedOk>>

\* the fees of one block after another, owner and producer being any two
\* accounts, the same one included
NextFees ==
    \E totalFees \in Fees, ownerAddress \in Accounts, blockProducerAddress \in Accounts :
        /\ totalFees # <<>> =>
              balance[ownerAddress] + balance[blockProducerAddress] + totalFees[1]
                  <= LedgerLimit
        /\ DistributeTxFeesToValidator(totalFees, ownerAddress, blockProducerAddress)
        /\ UNCHANGED outsideFees

SpecFees == Init /\ [][NextFees]_vars

\* ------------------------------------------------ callers of every spelling
\* the two sanctioned strings, and the empty string, prefixes, extensions,
\* case variants and a neighbouring address
AuthCallers ==
    {ConsensusEngineIdentifier, ConsensusEngineAddress,
     "", "consensus_engin", "consensus", "consensus_engine ", " consensus_engine",
     "consensus_engine_v2", "Consensus_Engine", "CONSENSUS_ENGINE",
     "0x", "0x000000000000000000000000000000000000000",
     "0x00000000000000000000000000000000000000000",
     "0X0000000000000000000000000000000000000000",
     "0x0000000000000000000000000000000000000001", "unauthorized_caller"}

AuthAmounts == {<<1>>, <<BlockRewardAmount>>}

\* Mint and Burn of valid amounts, called under every spelling
NextAuth ==
    \/ \E amount \in AuthAmounts, blockNumber \in BlockNumbers, caller \in AuthCallers :
          Mint(amount, blockNumber, caller) /\ UNCHANGED outsideTracker
    \/ \E amount \in AuthAmounts, blockNumber \in BlockNumbers, caller \in AuthCallers :
          Burn(amount, blockNumber, caller) /\ UNCHANGED outsideTracker

SpecAuth == Init /\ [][NextAuth]_vars

\* ====================================================================
\* The tracker's operations step by step, called from several goroutines
\* ====================================================================
\* A call is cut where another goroutine can get in between: at the lock
\* operations, and between the checks and the append, which only the mutex
\* keeps together. A goroutine back from its call forgets it.
ConcAmounts == {<<0>>, <<1>>, <<BlockRewardAmount>>}
ConcCallers == {ConsensusEngineIdentifier, "unauthorized_caller"}

\* the txn handed to MintRewardWithCap: its AddBalance only credits, or it
\* first reads the supply from the tracker (GetTotalSupply)
Txns == {"plain", "readsSupply"}

\* mutex.Lock() that excludes nobody
CanLock_NoExclusion == TRUE

\* mutex.Lock() returns: no goroutine holds the mutex in either mode
CanLock == mutex.writer = "" /\ mutex.readers = {}

\* mutex.RLock() returns: no goroutine holds the write lock. (A waiting
\* writer also holds new readers back; no call takes the read lock twice,
\* so that does not change which calls can finish.)
CanRLock == mutex.writer = ""

\* Mint: lines 72-74 before the lock; a valid amount goes on to Lock
CallMint(p, amount, caller) ==
    /\ proc[p].pc = "idle"
    /\ Len(auditLog) < MaxLog
    /\ proc' = [proc EXCEPT ![p] =
           IF MintErr(amount, caller) = ErrInvalidAmount
           THEN Idle
           ELSE [Idle EXCEPT !.pc = "Lock", !.op = "Mint", !.amount = amount,
                             !.caller = caller]]
    /\ UNCHANGED <<trackerVars, mutex, outsideConc>>

\* Burn: lines 111-113 before the lock
CallBurn(p, amount, caller) ==
    /\ proc[p].pc = "idle"
    /\ Len(auditLog) < MaxLog
    /\ proc' = [proc EXCEPT ![p] =
           IF BurnErr(amount, caller) = ErrInvalidAmount
           THEN Idle
           ELSE [Idle EXCEPT !.pc = "Lock", !.op = "Burn", !.amount = amount,
                             !.caller = caller]]
    /\ UNCHANGED <<trackerVars, mutex, outsideConc>>

CallMintRewardWithCap(p, txn, ownerAddress) ==
    /\ proc[p].pc = "idle"
    /\ Len(auditLog) < MaxLog
    /\ proc' = [proc EXCEPT ![p] =
           [Idle EXCEPT !.pc = "Lock", !.op = "MintRewardWithCap", !.txn = txn,
                        !.caller = ownerAddress]]
    /\ UNCHANGED <<trackerVars, mutex, outsideConc>>

\* GetTotalSupply or GetAuditLog
CallRead(p, op) ==
    /\ proc[p].pc = "idle"
    /\ proc' = [proc EXCEPT ![p] = [Idle EXCEPT !.pc = "RLock", !.op = op]]
    /\ UNCHANGED <<trackerVars, mutex, outsideConc>>

\* st.mutex.Lock()
Lock(p) ==
    /\ proc[p].pc = "Lock"
    /\ CanLock
    /\ mutex' = [mutex EXCEPT !.writer = p]
    /\ proc' = [proc EXCEPT ![p].pc = "Check"]
    /\ UNCHANGED <<trackerVars, outsideConc>>

\* the checks made under the lock: caller and cap (Mint), caller and supply
\* (Burn), the clamp (MintRewardWithCap)
Check(p) ==
    /\ proc[p].pc = "Check"
    /\ LET me == proc[p]
           err == IF me.op = "Mint" THEN MintErr(me.amount, me.caller)
                  ELSE IF me.op = "Burn" THEN BurnErr(me.amount, me.caller)
                  ELSE NoErr
           reward == IF me.op = "MintRewardWithCap"
                     THEN CappedReward(getCurrentSupply, getMaxSupply) ELSE 0
           stop == err # NoErr \/ (me.op = "MintRewardWithCap" /\ reward = 0)
       IN  proc' = [proc EXCEPT ![p].err = err, ![p].reward = reward,
                                ![p].pc = IF stop THEN "Unlock" ELSE "Append"]
    /\ UNCHANGED <<trackerVars, mutex, outsideConc>>

\* st.auditLog = append(st.auditLog, ...)
AppendEntry(p) ==
    /\ proc[p].pc = "Append"
    /\ LET me == proc[p] IN
       /\ mem' = Append(mem, IF me.op = "MintRewardWithCap" THEN me.reward
                             ELSE me.amount[1])
       /\ auditLog' = Append(auditLog,
              IF me.op = "Mint" THEN MintEntry(me.amount, 1, me.caller)
              ELSE IF me.op = "Burn" THEN BurnEntry(me.amount, 1, me.caller)
              ELSE SupplyAuditLog(1, Len(mem) + 1, "mint", "consensus_engine"))
       /\ mintedOk' = IF me.op = "Mint" THEN mintedOk + me.amount[1] ELSE mintedOk
       /\ burnedOk' = IF me.op = "Burn" THEN burnedOk + me.amount[1] ELSE burnedOk
       /\ proc' = [proc EXCEPT ![p].pc = IF me.op = "MintRewardWithCap"
                                         THEN "AddBalance" ELSE "Unlock"]
    /\ UNCHANGED <<initialSupply, balance, returned, call, authChecked, mutex, outsideConc>>

\* txn.AddBalance(ownerAddress, blockReward), called with the lock held: a
\* txn that reads the supply calls GetTotalSupply before it credits
CallAddBalance(p) ==
    /\ proc[p].pc = "AddBalance"
    /\ IF proc[p].txn = "readsSupply"
       THEN /\ proc' = [proc EXCEPT ![p].pc = "RLock", ![p].inCallback = TRUE]
            /\ UNCHANGED balance
       ELSE /\ proc' = [proc EXCEPT ![p].pc = "Unlock"]
            /\ balance' = AddBalance(balance, proc[p].caller, proc[p].reward)
    /\ UNCHANGED <<initialSupply, auditLog, mem, returned, call, mintedOk, burnedOk,
                   authChecked, mutex, outsideConc>>

\* st.mutex.RLock()
RLock(p) ==
    /\ proc[p].pc = "RLock"
    /\ CanRLock
    /\ mutex' = [mutex EXCEPT !.readers = @ \cup {p}]
    /\ proc' = [proc EXCEPT ![p].pc = "Read"]
    /\ UNCHANGED <<trackerVars, outsideConc>>

\* the body of GetTotalSupply or GetAuditLog
ReadShared(p) ==
    /\ proc[p].pc = "Read"
    /\ proc' = [proc EXCEPT ![p].pc = "RUnlock"]
    /\ UNCHANGED <<trackerVars, mutex, outsideConc>>

\* the deferred st.mutex.RUnlock(); a read made from inside AddBalance is
\* followed by the credit
RUnlock(p) ==
    /\ proc[p].pc = "RUnlock"
    /\ mutex' = [mutex EXCEPT !.readers = @ \ {p}]
    /\ IF proc[p].inCallback
       THEN /\ proc' = [proc EXCEPT ![p].pc = "Unlock", ![p].inCallback = FALSE]
            /\ balance' = AddBalance(balance, proc[p].caller, proc[p].reward)
       ELSE /\ proc' = [proc EXCEPT ![p] = Idle]
            /\ UNCHANGED balance
    /\ UNCHANGED <<initialSupply, auditLog, mem, returned, call, mintedOk, burnedOk,
                   authChecked, outsideConc>>

\* the deferred st.mutex.Unlock(), and the return
Unlock(p) ==
    /\ proc[p].pc = "Unlock"
    /\ mutex' = [mutex EXCEPT !.writer = ""]
    /\ proc' = [proc EXCEPT ![p] = Idle]
    /\ UNCHANGED <<trackerVars, outsideConc>>

\* a goroutine enters a call
ProcCall ==
    \E p \in Procs :
        \/ \E amount \in ConcAmounts, caller \in ConcCallers : CallMint(p, amount, caller)
        \/ \E amount \in ConcAmounts, caller \in ConcCallers : CallBurn(p, amount, caller)
        \/ \E txn \in Txns, ownerAddress \in Addresses :
              CallMintRewardWithCap(p, txn, ownerAddress)
        \/ \E op \in {"GetTotalSupply", "GetAuditLog"} : CallRead(p, op)

\* a goroutine inside a call takes its next step
ProcStep ==
    \E p \in Procs :
        \/ Lock(p)
        \/ Check(p)
        \/ AppendEntry(p)
        \/ CallAddBalance(p)
        \/ RLock(p)
        \/ ReadShared(p)
        \/ RUnlock(p)
        \/ Unlock(p)

NextConc == ProcCall \/ ProcStep

SpecConc == Init /\ [][NextConc]_vars

\* ====================================================================
\* enhanced_staking.go: the process-wide tracker
\* ====================================================================
\* the totals the tracker is initialised or updated with
AdminSupplies == {0, 1, MaxSupplyAmount}

\* globalSupplyTracker = NewSystemSupplyTracker(supply): a new instance with
\* an empty audit log takes the place of the one before
NewSystemSupplyTracker(supply) ==
    /\ globalSupplyTracker' =
           <<IF globalSupplyTracker = <<>> THEN 1 ELSE globalSupplyTracker[1] + 1>>
    /\ initialSupply' = supply
    /\ auditLog' = <<>>
    /\ mintedOk' = 0
    /\ burnedOk' = 0
    /\ UNCHANGED <<mem, balance, returned>>

InitializeSupplyTracker(supply) ==
    /\ globalSupplyTracker # <<>> => globalSupplyTracker[1] < MaxInstances
    /\ NewSystemSupplyTracker(supply)
    /\ call' = Call("InitializeSupplyTracker", <<supply>>, 0, "", NoErr)
    /\ authChecked' = FALSE

UpdateSupplyTrackerWithTotalSupply(totalSupply) ==
    /\ IF globalSupplyTracker = <<>>
       THEN NewSystemSupplyTracker(totalSupply)
       ELSE /\ initialSupply' = totalSupply
            /\ UNCHANGED <<globalSupplyTracker, auditLog, mem, balance, returned,
                           mintedOk, burnedOk>>
    /\ call' = Call("UpdateSupplyTrackerWithTotalSupply", <<totalSupply>>, 0, "", NoErr)
    /\ authChecked' = FALSE

\* GetGlobalSupplyTracker: a nil tracker is first created with supply 0
GetGlobalSupplyTracker ==
    /\ IF globalSupplyTracker = <<>>
       THEN NewSystemSupplyTracker(0)
       ELSE UNCHANGED <<globalSupplyTracker, initialSupply, auditLog, mem, balance,
                        returned, mintedOk, burnedOk>>
    /\ call' = Call("GetGlobalSupplyTracker", globalSupplyTracker', 0, "", NoErr)
    /\ authChecked' = FALSE

\* what the package-level GetCurrentSupply() returns when called in this
\* state: the total of the tracker GetGlobalSupplyTracker() hands it
LedgerSupply == IF globalSupplyTracker = <<>> THEN 0 ELSE GetCurrentSupply

\* the package-level GetCurrentSupply()
PkgGetCurrentSupply ==
    /\ IF globalSupplyTracker = <<>>
       THEN NewSystemSupplyTracker(0)
       ELSE UNCHANGED <<globalSupplyTracker, initialSupply, auditLog, mem, balance,
                        returned, mintedOk, burnedOk>>
    /\ call' = Call("GetCurrentSupply", <<LedgerSupply>>, 0, "", NoErr)
    /\ authChecked' = FALSE

\* the package-level GetSupplyAuditLog()
GetSupplyAuditLog ==
    /\ IF globalSupplyTracker = <<>>
       THEN /\ globalSupplyTracker' = <<1>>
            /\ initialSupply' = 0
            /\ auditLog' = <<>>
            /\ mintedOk' = 0
            /\ burnedOk' = 0
            /\ returned' = <<>>
            /\ UNCHANGED <<mem, balance>>
       ELSE /\ returned' = GetAuditLog
            /\ UNCHANGED <<globalSupplyTracker, initialSupply, auditLog, mem, balance,
                           mintedOk, burnedOk>>
    /\ call' = Call("GetSupplyAuditLog", <<>>, 0, "", NoErr)
    /\ authChecked' = FALSE

\* the process: the tracker is initialised, updated and fetched, the instance
\* fetched mints and burns, and the chain mints its block rewards
NextGlobal ==
    \/ \E supply \in AdminSupplies :
          InitializeSupplyTracker(supply) /\ UNCHANGED outsideGlobal
    \/ \E totalSupply \in AdminSupplies :
          UpdateSupplyTrackerWithTotalSupply(totalSupply) /\ UNCHANGED outsideGlobal
    \/ GetGlobalSupplyTracker /\ UNCHANGED outsideGlobal
    \/ PkgGetCurrentSupply /\ UNCHANGED outsideGlobal
    \/ GetSupplyAuditLog /\ UNCHANGED outsideGlobal
    \/ \E blockNumber \in BlockNumbers, ownerAddress \in Addresses :
          /\ globalSupplyTracker # <<>>
          /\ MintRewardWithCap(blockNumber, ownerAddress)
          /\ UNCHANGED outsideTracker
    \/ \E blockNumber \in BlockNumbers :
          /\ globalSupplyTracker # <<>>
          /\ Burn(<<1>>, blockNumber, ConsensusEngineIdentifier)
          /\ UNCHANGED outsideTracker
    \/ \E alloc \in StartupAllocs :
          /\ height = 0
          /\ SetGenesisAllocCache(alloc)
          /\ UNCHANGED outsideGenesis
    \/ \E ownerAddress \in Addresses :
          ProcessBlock(ownerAddress) /\ UNCHANGED outsideChain

SpecGlobal == Init /\ [][NextGlobal]_vars

\* the global tracker, initialised at startup, called by the goroutines step
\* by step while another goroutine of the process updates its total
NextConcAdmin ==
    \/ \E supply \in AdminSupplies :
          /\ globalSupplyTracker = <<>>
          /\ InitializeSupplyTracker(supply)
          /\ UNCHANGED outsideGlobal
    \/ globalSupplyTracker # <<>> /\ NextConc
    \/ \E totalSupply \in AdminSupplies :
          /\ globalSupplyTracker # <<>>
          /\ UpdateSupplyTrackerWithTotalSupply(totalSupply)
          /\ UNCHANGED outsideGlobal

SpecConcAdmin == Init /\ [][NextConcAdmin]_vars

\* the operations of one tracker, called one after another
Next ==
    \/ \E amount \in Amounts, blockNumber \in BlockNumbers, caller \in Callers :
          Mint(amount, blockNumber, caller) /\ UNCHANGED outsideTracker
    \/ \E amount \in Amounts, blockNumber \in BlockNumbers, caller \in Callers :
          Burn(amount, blockNumber, caller) /\ UNCHANGED outsideTracker
    \/ \E blockNumber \in BlockNumbers, ownerAddress \in Addresses :
          MintRewardWithCap(blockNumber, ownerAddress) /\ UNCHANGED outsideTracker
    \/ ReadTotalSupply /\ UNCHANGED outsideTracker
    \/ ReadAuditLog /\ UNCHANGED outsideTracker

Spec == Init /\ [][Next]_vars

\* the tracker's operations together with a caller that keeps, and writes
\* to, what GetAuditLog returned
NextCaller == Next \/ (CallerNext /\ UNCHANGED outsideTracker)

SpecCaller == Init /\ [][NextCaller]_vars

\* ====================================================================
\* Properties
\* ====================================================================
\* the two sanctioned caller identities, as the specification lists them
Sanctioned == {"0x0000000000000000000000000000000000000000", "consensus_engine"}

Positive(amount) == amount # <<>> /\ amount[1] > 0

\* what a reader of a log sees: every entry with the value its Amount points to
LogView(log, m) ==
    [i \in 1..Len(log) |->
        [BlockNumber |-> log[i].BlockNumber, Type |-> log[i].Type,
         Caller |-> log[i].Caller,
         Amount |-> IF log[i].Amount = 0 THEN <<>> ELSE <<m[log[i].Amount]>>]]

IsPrefix(s, t) == Len(s) <= Len(t) /\ SubSeq(t, 1, Len(s)) = s

\* C1: a tracker constructed with initialSupply <= maxSupply never reports a
\* total supply above maxSupply, in any state reached by Mint, Burn and
\* MintRewardWithCap calls (so after every single append).
C1_SupplyNeverExceedsCap ==
    initialSupply <= MaxSupplyAmount => GetTotalSupply <= MaxSupplyAmount

\* MintRewardWithCap has just minted a partial reward that lands on the cap
C1_Witness ==
    /\ call.op = "MintRewardWithCap"
    /\ Len(auditLog) = 2
    /\ mem[auditLog[2].Amount] < BlockRewardAmount
    /\ initialSupply <= MaxSupplyAmount
    /\ GetTotalSupply = MaxSupplyAmount

\* C2: the total supply is the initial supply plus the amounts of the Mint
\* calls that returned nil minus the amounts of the Burn calls that returned
\* nil; failed calls contribute nothing.  (What MintRewardWithCap minted is
\* what it credited through AddBalance, and is counted by that.)
C2_SupplyIsInitialPlusMintsMinusBurns ==
    GetTotalSupply = initialSupply + mintedOk - burnedOk + balance["owner"]

\* a Mint succeeded and then a Burn failed
C2_Witness ==
    /\ mintedOk > 0
    /\ balance["owner"] = 0
    /\ call.op = "Burn"
    /\ call.err = ErrInsufficientSupply
    /\ GetTotalSupply = initialSupply + mintedOk

C4_MintClampsToCap ==
    [][(call'.op = "Mint" /\ call'.caller = "consensus_engine" /\ Positive(call'.amount)) =>
         /\ (GetTotalSupply < MaxSupplyAmount
               /\ call'.amount[1] > MaxSupplyAmount - GetTotalSupply)
            => (call'.err = NoErr /\ GetTotalSupply' = MaxSupplyAmount)
         /\ GetTotalSupply = MaxSupplyAmount => call'.err = ErrSupplyCapExceeded]_vars

\* C5: Mint and Burn return InvalidAmount for a nil, zero or negative amount,
\* whatever the block number, the caller and the state of the ledger.
C5_InvalidAmountFirst ==
    (call.op \in {"Mint", "Burn"} /\ ~Positive(call.amount)) => call.err = ErrInvalidAmount

\* an unsanctioned caller burns a nil amount on a ledger that holds nothing
C5_Witness ==
    /\ call.op = "Burn"
    /\ call.amount = <<>>
    /\ call.caller \notin Sanctioned
    /\ GetTotalSupply <= 0
    /\ call.err = ErrInvalidAmount

\* C6: Mint or Burn of a positive amount by a caller outside the sanctioned
\* set returns Unauthorized in every state; Mint by "consensus_engine" of an
\* amount within the cap on a fresh ledger with supply 0 returns nil and
\* makes the total supply that amount.
C6_UnauthorizedRejected ==
    [][/\ (call'.op \in {"Mint", "Burn"} /\ Positive(call'.amount)
             /\ call'.caller \notin Sanctioned)
          => call'.err = ErrUnauthorizedMint
       /\ (call'.op = "Mint" /\ call'.caller = "consensus_engine"
             /\ Positive(call'.amount) /\ call'.amount[1] <= MaxSupplyAmount
             /\ initialSupply = 0 /\ auditLog = <<>>)
          => (call'.err = NoErr /\ GetTotalSupply' = call'.amount[1])]_vars

\* an unsanctioned caller tried to burn more than the ledger holds
C6_Witness ==
    /\ call.op = "Burn"
    /\ Positive(call.amount)
    /\ call.caller \notin Sanctioned
    /\ call.amount[1] > GetTotalSupply
    /\ call.err = ErrUnauthorizedMint

\* C7: for a sanctioned caller and a positive amount, Burn returns
\* InsufficientSupply exactly when amount > supply; otherwise it appends one
\* burn entry and lowers the supply by exactly amount.  On a ledger with
\* initialSupply >= 0 the supply is never negative.
C7_BurnWithinSupply ==
    /\ [](initialSupply >= 0 => GetTotalSupply >= 0)
    /\ [][(call'.op = "Burn" /\ Positive(call'.amount) /\ call'.caller \in Sanctioned) =>
            /\ call'.err \in {ErrInsufficientSupply, NoErr}
            /\ (call'.err = ErrInsufficientSupply) <=> (call'.amount[1] > GetTotalSupply)
            /\ call'.err = NoErr =>
                  /\ Len(auditLog') = Len(auditLog) + 1
                  /\ SubSeq(auditLog', 1, Len(auditLog)) = auditLog
                  /\ auditLog'[Len(auditLog')].Type = "burn"
                  /\ mem'[auditLog'[Len(auditLog')].Amount] = call'.amount[1]
                  /\ GetTotalSupply' = GetTotalSupply - call'.amount[1]]_vars

\* the whole supply has just been burned
C7_Witness ==
    /\ call.op = "Burn"
    /\ call.err = NoErr
    /\ initialSupply > 0
    /\ GetTotalSupply = 0

\* C8: a Mint or Burn call that returns an error leaves initialSupply, the
\* audit log (its length and every entry) and the total supply as they were.
C8_FailedCallChangesNothing ==
    [][(call'.op \in {"Mint", "Burn"} /\ call'.err # NoErr) =>
         /\ initialSupply' = initialSupply
         /\ auditLog' = auditLog
         /\ LogView(auditLog', mem') = LogView(auditLog, mem)
         /\ GetTotalSupply' = GetTotalSupply]_vars

\* a Mint was rejected at the cap on a ledger that already holds an entry
C8_Witness ==
    /\ call.op = "Mint"
    /\ call.err = ErrSupplyCapExceeded
    /\ Len(auditLog) = 1

\* C9: the audit log is append-only and ordered.  A successful Mint or Burn
\* lengthens it by one, the new entry last and carrying the kind, amount,
\* block number and caller of the call; a failed call and a read leave it
\* alone; any other operation at most extends it; and a log returned
\* earlier is a prefix of every log returned later.
C9_LogAppendOnly ==
    [][LET before == LogView(auditLog, mem)
           after == LogView(auditLog', mem')
       IN
       IF call'.op \in {"Mint", "Burn"} /\ call'.err = NoErr
       THEN after = Append(before,
                      [BlockNumber |-> call'.blockNumber,
                       Type |-> IF call'.op = "Mint" THEN "mint" ELSE "burn",
                       Caller |-> call'.caller,
                       Amount |-> call'.amount])
       ELSE IF call'.op \in {"Mint", "Burn", "GetTotalSupply"}
       THEN after = before
       ELSE IF call'.op = "GetAuditLog"
       THEN /\ after = before
            /\ LogView(returned', mem') = before
            /\ IsPrefix(LogView(returned, mem), LogView(returned', mem'))
       ELSE IsPrefix(before, after)]_vars

\* a log of one entry was returned, an entry was appended, and the log was
\* returned again
C9_Witness ==
    /\ call.op = "GetAuditLog"
    /\ Len(returned) = 2
    /\ returned[1].Type = "mint"
    /\ returned[2].Type = "burn"

\* C10: whatever the caller does to the slice GetAuditLog returned, or to
\* its entries (replace or remove an entry, change its kind, change the
\* amount value an entry holds), no later GetAuditLog or GetTotalSupply
\* result changes.
C10_ReturnedLogIsIndependent ==
    [][call'.op \in {"CallerReplaceEntry", "CallerRemoveEntry",
                     "CallerSetType", "CallerSetAmount"} =>
         /\ LogView(GetAuditLog', mem') = LogView(GetAuditLog, mem)
         /\ GetTotalSupply' = GetTotalSupply]_vars

\* C11: the reward clamp is 0 when supply >= maxSupply and otherwise
\* min(reward, maxSupply - supply); MintRewardWithCap appends and credits
\* exactly that amount for the ledger's current supply, and when it is 0 it
\* appends no entry and credits no balance.
C11_RewardIsClamped ==
    /\ [](\A c \in (-1)..(MaxSupplyAmount + BlockRewardAmount), m \in 0..(MaxSupplyAmount + 1) :
            CappedReward(c, m) = ComputeMintable(c, m, BlockRewardAmount))
    /\ [][call'.op = "MintRewardWithCap" =>
            LET mintable == ComputeMintable(GetTotalSupply, MaxSupplyAmount, BlockRewardAmount)
            IN  IF mintable = 0
                THEN auditLog' = auditLog /\ mem' = mem /\ balance' = balance
                ELSE /\ Len(auditLog') = Len(auditLog) + 1
                     /\ SubSeq(auditLog', 1, Len(auditLog)) = auditLog
                     /\ auditLog'[Len(auditLog')].Type = "mint"
                     /\ mem'[auditLog'[Len(auditLog')].Amount] = mintable
                     /\ balance' = [balance EXCEPT ![call'.caller] = @ + mintable]
                     /\ GetTotalSupply' = GetTotalSupply + mintable]_vars

\* half a token below the cap, MintRewardWithCap minted and credited half a token
C11_Witness ==
    /\ call.op = "MintRewardWithCap"
    /\ initialSupply = MaxSupplyAmount - 1
    /\ Len(auditLog) = 1
    /\ mem[auditLog[1].Amount] = 1
    /\ balance["owner"] = 1

RECURSIVE SumOfMintEntries(_, _)
SumOfMintEntries(log, m) ==
    IF log = <<>> THEN 0
    ELSE (IF Head(log).Type = "mint" THEN m[Head(log).Amount] ELSE 0)
         + SumOfMintEntries(Tail(log), m)

\* C13: balance credits and audit-log mint entries are never out of step,
\* whichever entry point mints the reward (Mint / SystemSupplyTracker.
\* MintBlockReward, MintRewardWithCap, the package-level MintBlockReward):
\* what the ledger was credited is what the mint entries of the log record.
C13_CreditsMatchMintEntries ==
    balance["owner"] = SumOfMintEntries(auditLog, mem)

\* the sum of the balances of a set of accounts
RECURSIVE LedgerTotal(_, _)
LedgerTotal(ledger, accounts) ==
    IF accounts = {} THEN 0
    ELSE LET a == CHOOSE x \in accounts : TRUE
         IN  ledger[a] + LedgerTotal(ledger, accounts \ {a})

\* C14: DistributeTxFeesToValidator credits the owner floor(totalFees / 2)
\* and the block producer the rest, so the two credits add up to totalFees
\* exactly (101 gives 50 and 51); with nil or zero fees it makes no
\* AddBalance call at all.
C14_FeesSplitExactly ==
    /\ [](OwnerFee(101) = 50 /\ ValidatorFee(101) = 51)
    /\ [][call'.op = "DistributeTxFeesToValidator" =>
            LET f == fees'.totalFees
            IN  IF f = <<>> \/ f[1] = 0
                THEN fees'.credits = <<>> /\ balance' = balance
                ELSE /\ Len(fees'.credits) = 2
                     /\ LET toOwner == fees'.credits[1]
                            toProducer == fees'.credits[2]
                        IN  /\ toOwner.to = fees'.ownerAddress
                            /\ toProducer.to = fees'.blockProducerAddress
                            /\ 2 * toOwner.amount <= f[1]
                            /\ f[1] < 2 * toOwner.amount + 2
                            /\ toProducer.amount = f[1] - toOwner.amount
                            /\ toOwner.amount + toProducer.amount = f[1]
                     /\ LedgerTotal(balance', Accounts)
                            = LedgerTotal(balance, Accounts) + f[1]
                     /\ fees'.ownerAddress # fees'.blockProducerAddress =>
                            /\ balance'[fees'.ownerAddress]
                                   = balance[fees'.ownerAddress] + fees'.credits[1].amount
                            /\ balance'[fees'.blockProducerAddress]
                                   = balance[fees'.blockProducerAddress]
                                         + fees'.credits[2].amount]_vars

C14_Witness ==
    /\ call.op = "DistributeTxFeesToValidator"
    /\ fees.totalFees = <<MaxFees>>
    /\ fees.ownerAddress = "owner" /\ fees.blockProducerAddress = "producer"
    /\ balance["owner"] = 2 /\ balance["producer"] = 3

\* C15: isConsensusEngine accepts exactly the two strings
\* "0x0000000000000000000000000000000000000000" and "consensus_engine"; the
\* empty string, every prefix or extension of either and every case variant
\* is rejected, so a Mint or Burn of a valid amount fails with
\* ErrUnauthorizedMint exactly when its caller is not one of the two.
C15_ExactlyTwoIdentities ==
    /\ \A caller \in AuthCallers : isConsensusEngine(caller) <=> caller \in Sanctioned
    /\ call.op \in {"Mint", "Burn"} /\ Positive(call.amount) =>
          (call.err = ErrUnauthorizedMint <=> call.caller \notin Sanctioned)

C15_Witness ==
    /\ call.op = "Mint" /\ call.caller = "Consensus_Engine"
    /\ call.err = ErrUnauthorizedMint
    /\ Len(auditLog) = 1 /\ auditLog[1].Caller = ConsensusEngineAddress

\* C16: there is no privileged bypass: every operation that appends to the
\* audit log, MintRewardWithCap included, evaluates the caller-authorization
\* check before it appends, and every recorded entry's caller is one of the
\* two sanctioned identities.
C16_NoAppendWithoutAuthCheck ==
    /\ [](\A i \in 1..Len(auditLog) : auditLog[i].Caller \in Sanctioned)
    /\ [][Len(auditLog') > Len(auditLog) => authChecked']_vars

\* the balance the allocation cache gives an address: 0 when there is no
\* allocation, no such account or no balance
BalanceOrZero(cache, addr) ==
    IF cache = <<>> THEN 0
    ELSE IF addr \notin DOMAIN cache[1] THEN 0
    ELSE IF cache[1][addr].Balance = <<>> THEN 0
    ELSE cache[1][addr].Balance[1]

\* the genesis total as the specification defines it
GenesisTotalOf(cache) == BalanceOrZero(cache, "alice") + BalanceOrZero(cache, "bob")

\* C17: the genesis total is the sum of the balances of all genesis accounts
\* except the zero address, a nil or absent balance counting as 0 (zero
\* address 5, others 1 and 2 give 3), and it is 0 when no allocation has
\* been set.
C17_GenesisTotalSkipsZeroAddress ==
    /\ calculateGenesisTotal(GenesisAllocCache) = GenesisTotalOf(GenesisAllocCache)
    /\ calculateGenesisTotal(<<>>) = 0
    /\ call.op = "SetGenesisAllocCache" => genesisTotal = <<GenesisTotalOf(GenesisAllocCache)>>

C17_Witness ==
    /\ call.op = "SetGenesisAllocCache"
    /\ GenesisAllocCache =
           <<[addr \in GenesisAddresses |->
                 [Balance |-> IF addr = ZeroAddress THEN <<MaxSupplyAmount>>
                              ELSE IF addr = "alice" THEN <<1>> ELSE <<2>>]]>>
    /\ genesisTotal = <<3>>

\* C18: the cached genesis total never goes stale and never leaks: after any
\* sequence of SetGenesisAllocCache calls, getGenesisTotal /
\* LogGenesisAllocSum calls (a read before the first set included) and
\* writes by callers to the values they were returned, a read returns the
\* genesis total of the allocation current at that moment.
C18_GenesisTotalNeverStale ==
    /\ GenesisTotalValue = GenesisTotalOf(GenesisAllocCache)
    /\ call.op = "getGenesisTotal" => call.amount = <<GenesisTotalOf(GenesisAllocCache)>>

C18_Witness ==
    /\ call.op = "CallerSetTotal"
    /\ totalRet = <<[v |-> MaxSupplyAmount + 1, shared |-> FALSE]>>
    /\ GenesisAllocCache # <<>>
    /\ genesisTotal = <<3>>

\* a goroutine between the checks of a mutating call and its return
InCriticalSection(p) ==
    proc[p].pc \in {"Check", "Append", "AddBalance", "Unlock"} \/ proc[p].inCallback

\* C19: Mint, Burn and MintRewardWithCap each run their check-then-append
\* sequence as one critical section. No two goroutines are inside it at
\* once; every append takes effect as the same call made alone at that
\* moment would (a mint fits under the cap, a burn is covered by the supply,
\* the supply moves by exactly the amount), which orders the calls
\* sequentially; so concurrent mints that each fit alone but not together
\* never both succeed and the supply never overshoots maxSupply.
C19_CheckThenAppendIsAtomic ==
    /\ [](\A p, q \in Procs : InCriticalSection(p) /\ InCriticalSection(q) => p = q)
    /\ [](initialSupply <= MaxSupplyAmount => GetTotalSupply <= MaxSupplyAmount)
    /\ [][auditLog' # auditLog =>
            /\ Len(auditLog') = Len(auditLog) + 1
            /\ SubSeq(auditLog', 1, Len(auditLog)) = auditLog
            /\ LET entry == auditLog'[Len(auditLog')]
                   amount == mem'[entry.Amount]
               IN  /\ amount > 0
                   /\ entry.Type = "mint" =>
                          /\ GetTotalSupply + amount <= MaxSupplyAmount
                          /\ GetTotalSupply' = GetTotalSupply + amount
                   /\ entry.Type = "burn" =>
                          /\ GetTotalSupply >= amount
                          /\ GetTotalSupply' = GetTotalSupply - amount]_vars

\* g1 has minted and still holds the lock; g2 waits for it with a mint that
\* fitted when g1 was let in and no longer does
C19_Witness ==
    /\ proc["g1"].op = "Mint" /\ proc["g1"].pc = "Unlock" /\ proc["g1"].err = NoErr
    /\ proc["g2"].op = "Mint" /\ proc["g2"].pc = "Lock"
    /\ isConsensusEngine(proc["g2"].caller)
    /\ mutex.writer = "g1"
    /\ (GetTotalSupply - proc["g1"].amount[1]) + proc["g2"].amount[1] <= MaxSupplyAmount
    /\ GetTotalSupply + proc["g2"].amount[1] > MaxSupplyAmount

\* C20: no operation blocks indefinitely: a goroutine that is back from its
\* call holds the lock in neither mode, and while any call is in progress
\* some goroutine inside a call can take a step, whatever the callers are, a
\* balance-ledger callback that reads the supply included.
C20_NoCallBlocksForever ==
    /\ \A p \in Procs : proc[p].pc = "idle" => mutex.writer # p /\ p \notin mutex.readers
    /\ (\E p \in Procs : proc[p].pc # "idle") => ENABLED ProcStep

\* the supply there actually is: the genesis total and what was credited
ActualSupply == GenesisTotalOf(GenesisAllocCache) + balance["owner"]

C22_MintsUntilExactlyAtCap ==
    /\ [][(call'.op = "MintBlockReward"
           /\ GenesisTotalOf(GenesisAllocCache) <= MaxSupplyAmount) =>
            LET room == MaxSupplyAmount - ActualSupply
            IN  balance'["owner"] - balance["owner"] =
                    IF room >= BlockRewardAmount THEN BlockRewardAmount
                    ELSE IF room > 0 THEN room ELSE 0]_vars
    /\ []((/\ call.op = "MintBlockReward" /\ call.amount = <<0>>
           /\ GenesisTotalOf(GenesisAllocCache) <= MaxSupplyAmount)
             => ActualSupply = MaxSupplyAmount)

\* C23: the current supply the per-block mint decision uses is the actual
\* supply: at every block it is the genesis total plus every reward credited
\* so far minus every burn, and the closed-form value genesisTotal +
\* blockNumber * reward never differs from what the ledger's
\* GetCurrentSupply() returns.
C23_DecisionSupplyIsActualSupply ==
    /\ [][call'.op = "MintBlockReward" =>
            getCurrentSupplyFromBlockNumber(call'.blockNumber)
                = ActualSupply - burnedOk]_vars
    /\ [](getCurrentSupplyFromBlockNumber(height) = LedgerSupply)

\* C24: the process-wide ledger lives as long as the process and its audit
\* log only grows: every log GetSupplyAuditLog() returns is a prefix of every
\* log it returns later, and the instance GetGlobalSupplyTracker() hands out
\* is always the same one.
C24_GlobalLogOnlyGrows ==
    /\ [][call'.op = "GetSupplyAuditLog" =>
            IsPrefix(LogView(returned, mem), LogView(returned', mem'))]_vars
    /\ [][globalSupplyTracker # <<>> => globalSupplyTracker' = globalSupplyTracker]_vars

\* C25: right after UpdateSupplyTrackerWithTotalSupply(x) returns,
\* GetCurrentSupply() is x, whether the global tracker was nil, new or
\* already held mint and burn entries; for x <= maxSupply the supply is then
\* within the cap.
C25_UpdateSetsCurrentSupply ==
    [][call'.op = "UpdateSupplyTrackerWithTotalSupply" =>
          /\ LedgerSupply' = call'.amount[1]
          /\ call'.amount[1] <= MaxSupplyAmount => LedgerSupply' <= MaxSupplyAmount]_vars

\* C26: every write to the state of the ledger (initialSupply and auditLog),
\* the administrative reset UpdateSupplyTrackerWithTotalSupply included, is
\* made by a goroutine holding the ledger's lock in exclusive mode, so the
\* state does not change under a goroutine that holds the lock in shared
\* mode: GetTotalSupply and GetAuditLog see the state before or after a whole
\* operation.
C26_WritesHoldExclusiveLock ==
    /\ [][(globalSupplyTracker # <<>>
           /\ (initialSupply' # initialSupply \/ auditLog' # auditLog)) =>
            mutex.writer # "" /\ mutex'.writer = mutex.writer]_vars
    /\ [][mutex.readers # {} =>
            initialSupply' = initialSupply /\ auditLog' = auditLog]_vars

====
